---------------------------- MODULE Spec2Model ----------------------------
(***************************************************************************)
(* State-machine model of the two core components of the workflow          *)
(* automator:                                                              *)
(*   - ChatHistoryManager (components/chat_history_manager.py): the        *)
(*     per-project session store with migration, auto-naming and splitting *)
(*   - ClaudeRunner (components/claude_runner.py): the executor of the     *)
(*     external agent and the store of its session handle.                 *)
(*                                                                         *)
(* Conventions.  Python objects that are shared by reference (ChatSession) *)
(* are kept by value inside the list that owns them; current_session is a  *)
(* reference: "none", "listed" (position in the current project's list) or *)
(* "detached" (an object no list holds).  Text is a sequence of words.     *)
(* datetime.now() reads the variable clock, which every handler advances.  *)
(***************************************************************************)
EXTENDS Integers, Sequences, FiniteSets, TLC

VARIABLES
    \* ---- ChatHistoryManager (in memory)
    current_project_path,     \* self.current_project_path
    project_sessions,         \* self.project_sessions: project_id -> list of sessions
    current_session,          \* self.current_session (a reference)
    active_session_id,        \* self.active_session_id
    current_project_history,  \* self.current_project_history (legacy alias)
    \* ---- ChatHistoryManager (on disk, under history_dir)
    sessions_file,            \* sessions_<project_id>.json
    history_file,             \* history_<project_id>.json (legacy)
    \* ---- environment of the store
    clock,                    \* datetime.now()
    next_uuid,                \* uuid.uuid4() draws so far
    last_call,                \* the most recent call on the store and what it did
    named_log,                \* the ids of the sessions _schedule_auto_naming named, in order
    write_failed,             \* some write of a per-project record has failed
    \* ---- ClaudeRunner
    last_session_id,          \* self.last_session_id
    session_file,             \* ~/.claude_workflow_sessions.json
    pc,                       \* position of each worker inside execute_claude_prompt
    frame,                    \* locals of each worker's call
    instance                  \* ClaudeRunner instances constructed after the first

store_vars == <<current_project_path, project_sessions, current_session,
                active_session_id, current_project_history, sessions_file,
                history_file, clock, next_uuid, last_call, named_log, write_failed>>
runner_vars == <<last_session_id, session_file, pc, frame, instance>>
vars == <<store_vars, runner_vars>>

(***************************************************************************)
(* Bounds of the model.                                                    *)
(***************************************************************************)
MaxOps == 3            \* calls on the store in one behaviour of SpecStore
MaxLegacy == 3         \* entries of the largest legacy history record
MaxSplitAdds == 77     \* add_chat_entry calls in one behaviour of SpecSplit
MaxListed == 2         \* sessions a project holds besides the active one (SpecSplit)

(***************************************************************************)
(* Program constants.                                                      *)
(***************************************************************************)
SPLIT_THRESHOLD == 50  \* len(entries) > 50 triggers a split
SPLIT_KEEP == 25       \* entries the active session keeps
ID_PREFIX_LEN == 100   \* prompt_text[:100] in ChatEntry._generate_id

None == "None"
\* a file of the store: missing, present and unparseable, or holding a JSON object
Absent == [state |-> "absent"]
Corrupt == [state |-> "corrupt"]
Json(data) == [state |-> "json", data |-> data]

\* ------------------------------------------------------------------ text
\* a word of 60 characters, and one that is not ASCII
LongWord == "internationalizationinternationalizationinternationalization"
Words == {"Please", "analyze", "fix", "the", "bug", "login", "handler", LongWord, "déjà"}
Prompts == { <<>>, <<"fix", "the", "bug">>, <<"login", "handler">> }

Max(a, b) == IF a > b THEN a ELSE b
Min(a, b) == IF a < b THEN a ELSE b

\* Python's seq[:n] and seq[-n:]
Take(s, n) == SubSeq(s, 1, Min(n, Len(s)))
DropLast(s, n) == SubSeq(s, 1, Max(Len(s) - n, 0))
TakeLast(s, n) == SubSeq(s, Max(Len(s) - n, 0) + 1, Len(s))

\* str.lower() and str.title() on the words of the model's vocabulary
Lower(w) == IF w = "Please" THEN "please" ELSE w
Title(w) ==
    CASE w \in {"please", "Please"} -> "Please"
      [] w = "analyze" -> "Analyze"
      [] w = "fix" -> "Fix"
      [] w = "the" -> "The"
      [] w = "bug" -> "Bug"
      [] w = "login" -> "Login"
      [] w = "handler" -> "Handler"
      [] w = LongWord -> "Internationalizationinternationalizationinternationalization"
      [] w = "déjà" -> "Déjà"
      [] OTHER -> w
\* len(w)
WordLen(w) ==
    CASE w \in {"fix", "the", "bug", "Fix", "The", "Bug", "New", "..."} -> 3
      [] w \in {"déjà", "Déjà", "Chat"} -> 4
      [] w \in {"login", "Login"} -> 5
      [] w \in {"Please", "please"} -> 6
      [] w \in {LongWord, Title(LongWord)} -> 60
      [] OTHER -> 7

RECURSIVE JoinLen(_)
\* len(' '.join(ws))
JoinLen(ws) ==
    IF ws = <<>> THEN 0
    ELSE IF Len(ws) = 1 THEN WordLen(ws[1])
    ELSE WordLen(ws[1]) + 1 + JoinLen(Tail(ws))

TitleAll(ws) == [i \in 1..Len(ws) |-> Title(ws[i])]

StartsWith(text, prefix) ==
    /\ Len(prefix) <= Len(text)
    /\ SubSeq(text, 1, Len(prefix)) = prefix

\* the prefixes of prefixes_to_remove the vocabulary can spell
prefixes_to_remove == << <<"Please", "analyze">> >>
\* the entries of code_keywords the vocabulary can spell
code_keywords == {"bug", "fix"}
stop_words == {"with", "this", "that", "they", "them", "these", "those"}
NAME_LIMIT == 50

RECURSIVE RemovePrefix(_, _)
\* for prefix in prefixes_to_remove: if text.startswith(prefix): cut it; break
RemovePrefix(text, prefixes) ==
    IF prefixes = <<>> THEN text
    ELSE IF StartsWith(text, Head(prefixes))
         THEN SubSeq(text, Len(Head(prefixes)) + 1, Len(text))
         ELSE RemovePrefix(text, Tail(prefixes))

IsKeyword(w) == Lower(w) \in code_keywords
IsMeaningful(w) == WordLen(w) > 3 /\ Lower(w) \notin stop_words

\* len(name): a name cut by name[:47] + "..." is [:47], the words cut, and "..."
NameLen(name) ==
    IF name # <<>> /\ name[1] = "[:47]"
    THEN Min(47, JoinLen(SubSeq(name, 2, Len(name) - 1))) + WordLen("...")
    ELSE JoinLen(name)

\* a naming that does not limit the length
_generate_session_name_uncut(prompt_text) ==
    LET words == RemovePrefix(prompt_text, prefixes_to_remove)
        found0 == SelectSeq(Take(words, 20), IsKeyword)
        found_keywords == [i \in 1..Len(found0) |-> Lower(found0[i])]
        meaningful_words == SelectSeq(Take(words, 10), IsMeaningful)
        name0 == IF found_keywords # <<>> THEN TitleAll(Take(found_keywords, 3))
                 ELSE IF meaningful_words # <<>> THEN Take(meaningful_words, 4)
                 ELSE IF words # <<>> THEN Take(words, 4)
                 ELSE <<"New", "Session">>
        name1 == TitleAll(name0)
    IN  IF name1 = <<>> THEN <<"Chat", "Session">> ELSE name1
\* ChatHistoryManager._generate_session_name; a name is its sequence of words
_generate_session_name(prompt_text) ==
    LET words == RemovePrefix(prompt_text, prefixes_to_remove)
        found0 == SelectSeq(Take(words, 20), IsKeyword)
        found_keywords == [i \in 1..Len(found0) |-> Lower(found0[i])]
        meaningful_words == SelectSeq(Take(words, 10), IsMeaningful)
        name0 == IF found_keywords # <<>> THEN TitleAll(Take(found_keywords, 3))
                 ELSE IF meaningful_words # <<>> THEN Take(meaningful_words, 4)
                 ELSE IF words # <<>> THEN Take(words, 4)
                 ELSE <<"New", "Session">>
        name1 == TitleAll(name0)
        name2 == IF JoinLen(name1) > NAME_LIMIT
                 THEN <<"[:47]">> \o name1 \o <<"...">>
                 ELSE name1
    IN  IF name2 = <<>> THEN <<"Chat", "Session">> ELSE name2


\* ------------------------------------------------- paths and project ids
Paths == {"", "projA", "projB"}
\* Python truthiness of a path: None and "" are falsy
Truthy(path) == path \notin {None, ""}
\* ChatHistoryManager._get_project_id (md5 taken as injective on Paths)
_get_project_id(project_path) ==
    IF ~Truthy(project_path) THEN "default" ELSE "md5_" \o project_path
ProjectIds == {_get_project_id(p) : p \in Paths}

\* str(uuid.uuid4())[:8]: the n-th draw, each draw a new value
uuid4(n) == "id" \o ToString(n)

\* ------------------------------------------------------------- ChatEntry
\* ChatEntry._generate_id: md5(timestamp + prompt_text[:100])[:8]
_generate_id(timestamp, prompt_text) ==
    <<timestamp, Take(prompt_text, ID_PREFIX_LEN)>>

\* a token_usage argument: [given |-> FALSE] is None
NoUsage == [given |-> FALSE, map |-> {}]
\* ChatEntry.__init__
ChatEntry(timestamp, prompt_type, prompt_text, response_text, model_used, token_usage) ==
    [ id            |-> _generate_id(timestamp, prompt_text),
      timestamp     |-> timestamp,
      prompt_type   |-> prompt_type,
      prompt_text   |-> prompt_text,
      response_text |-> response_text,
      model_used    |-> model_used,
      token_usage   |-> IF token_usage.given THEN token_usage.map ELSE {} ]

\* ChatEntry.to_dict: the JSON object of an entry
entry_to_dict(e) ==
    [ id            |-> e.id,
      timestamp     |-> e.timestamp,
      prompt_type   |-> e.prompt_type,
      prompt_text   |-> e.prompt_text,
      response_text |-> e.response_text,
      model_used    |-> e.model_used,
      token_usage   |-> e.token_usage ]

\* ChatEntry.from_dict
entry_from_dict(data) ==
    LET entry == ChatEntry(data.timestamp, data.prompt_type, data.prompt_text,
                           data.response_text, data.model_used,
                           [given |-> TRUE, map |-> data.token_usage])
    IN  [entry EXCEPT !.id = data.id]

\* ----------------------------------------------------------- ChatSession
\* ChatSession.__init__; fresh is the value uuid4 returns if it is drawn
ChatSession(session_name, session_id, fresh, now) ==
    [ session_id   |-> IF session_id = None THEN fresh ELSE session_id,
      session_name |-> IF session_name = <<>> THEN <<"New", "Chat">> ELSE session_name,
      created_at   |-> now,
      updated_at   |-> now,
      entries      |-> <<>>,
      is_saved     |-> FALSE,
      auto_named   |-> FALSE ]

\* an append that leaves is_saved as it was
session_add_entry_keepsSaved(session, entry, now) ==
    [session EXCEPT !.entries = Append(@, entry),
                    !.updated_at = now]
\* ChatSession.add_entry
session_add_entry(session, entry, now) ==
    [session EXCEPT !.entries = Append(@, entry),
                    !.updated_at = now,
                    !.is_saved = FALSE]

\* ChatSession.to_dict
session_to_dict(session) ==
    [ session_id   |-> session.session_id,
      session_name |-> session.session_name,
      created_at   |-> session.created_at,
      updated_at   |-> session.updated_at,
      entries      |-> [i \in 1..Len(session.entries) |-> entry_to_dict(session.entries[i])],
      is_saved     |-> session.is_saved,
      auto_named   |-> session.auto_named ]

\* a from_dict that leaves the flags as the constructor sets them
session_from_dict_noFlags(data, fresh, now) ==
    LET session == ChatSession(data.session_name, data.session_id, fresh, now)
    IN  [session EXCEPT
           !.created_at = data.created_at,
           !.updated_at = data.updated_at,
           !.entries    = [i \in 1..Len(data.entries) |-> entry_from_dict(data.entries[i])]]
\* ChatSession.from_dict (records written by to_dict carry every key)
session_from_dict(data, fresh, now) ==
    LET session == ChatSession(data.session_name, data.session_id, fresh, now)
    IN  [session EXCEPT
           !.created_at = data.created_at,
           !.updated_at = data.updated_at,
           !.is_saved   = data.is_saved,
           !.auto_named = data.auto_named,
           !.entries    = [i \in 1..Len(data.entries) |-> entry_from_dict(data.entries[i])]]


\* ---------------------------------------------------- ChatHistoryManager
(***************************************************************************)
(* The handlers are written as functions of the manager's state m, a       *)
(* record of the store's variables, so that a handler that calls another   *)
(* (add_chat_entry -> start_new_session, _split_session,                   *)
(* save_project_sessions) is the composition the code performs.            *)
(***************************************************************************)
NoSession == [kind |-> "none"]
Listed(i) == [kind |-> "listed", idx |-> i]
Detached(s) == [kind |-> "detached", obj |-> s]

Self ==
    [ current_project_path    |-> current_project_path,
      project_sessions        |-> project_sessions,
      current_session         |-> current_session,
      active_session_id       |-> active_session_id,
      current_project_history |-> current_project_history,
      sessions_file           |-> sessions_file,
      next_uuid               |-> next_uuid ]

\* self.project_sessions.get(project_id, [])
SessionsOf(m, project_id) ==
    IF project_id \in DOMAIN m.project_sessions
    THEN m.project_sessions[project_id] ELSE <<>>

\* the object self.current_session refers to (not for NoSession)
CurrentObj(m) ==
    IF m.current_session.kind = "listed"
    THEN m.project_sessions[_get_project_id(m.current_project_path)][m.current_session.idx]
    ELSE m.current_session.obj

\* an assignment through self.current_session: the object changes where it lives
WithCurrentObj(m, s) ==
    IF m.current_session.kind = "listed"
    THEN [m EXCEPT !.project_sessions[_get_project_id(m.current_project_path)]
                                     [m.current_session.idx] = s]
    ELSE [m EXCEPT !.current_session = Detached(s)]

\* ChatHistoryManager.start_new_session
start_new_session(m, session_name, now) ==
    LET session == ChatSession(session_name, None, uuid4(m.next_uuid + 1), now)
        project_id == _get_project_id(m.current_project_path)
        m1 == [m EXCEPT !.next_uuid = @ + 1,
                        !.active_session_id = session.session_id,
                        !.current_project_history = <<>>]
    IN  IF Truthy(m.current_project_path)
        THEN LET old == SessionsOf(m, project_id)
             IN  [m1 EXCEPT
                    !.project_sessions =
                        [q \in DOMAIN m.project_sessions \cup {project_id} |->
                            IF q = project_id THEN Append(old, session)
                            ELSE m.project_sessions[q]],
                    !.current_session = Listed(Len(old) + 1)]
        ELSE [m1 EXCEPT !.current_session = Detached(session)]

\* ChatHistoryManager.get_project_sessions
get_project_sessions(m, project_path) ==
    LET path == IF Truthy(project_path) THEN project_path ELSE m.current_project_path
    IN  IF ~Truthy(path) THEN <<>> ELSE SessionsOf(m, _get_project_id(path))

\* the position of the first session of sessions with that id, 0 when none
FirstWithId(sessions, session_id) ==
    LET hits == {i \in 1..Len(sessions) : sessions[i].session_id = session_id}
    IN  IF hits = {} THEN 0 ELSE CHOOSE i \in hits : \A j \in hits : i <= j

\* a switch that takes the id as the active one even when no session has it
switch_to_session_blind(m, session_id) ==
    LET sessions == SessionsOf(m, _get_project_id(m.current_project_path))
        i == FirstWithId(sessions, session_id)
    IN  IF i = 0 THEN [m EXCEPT !.active_session_id = session_id]
        ELSE [m EXCEPT !.current_session = Listed(i),
                       !.active_session_id = session_id,
                       !.current_project_history = sessions[i].entries]
\* ChatHistoryManager.switch_to_session
switch_to_session(m, session_id) ==
    LET sessions == SessionsOf(m, _get_project_id(m.current_project_path))
        i == FirstWithId(sessions, session_id)
    IN  IF i = 0 THEN m
        ELSE [m EXCEPT !.current_session = Listed(i),
                       !.active_session_id = session_id,
                       !.current_project_history = sessions[i].entries]

\* outcomes of writing the per-project record
WriteOutcomes == {"ok", "open_failed", "dump_failed"}

\* ChatHistoryManager.save_project_sessions; w is what the write does:
\* open() fails (the file is left as it was), or open() truncates the file and
\* json.dump fails (the file is left unparseable), or the record is written
save_project_sessions(m, w, now) ==
    IF ~Truthy(m.current_project_path) THEN m
    ELSE LET project_id == _get_project_id(m.current_project_path)
             sessions == SessionsOf(m, project_id)
             data == [ project_path |-> m.current_project_path,
                       last_updated |-> now,
                       sessions |-> [i \in 1..Len(sessions) |-> session_to_dict(sessions[i])] ]
         IN  CASE w = "ok" -> [m EXCEPT !.sessions_file[project_id] = Json(data)]
               [] w = "dump_failed" -> [m EXCEPT !.sessions_file[project_id] = Corrupt]
               [] OTHER -> m


\* a naming that does not mark the session as named
_schedule_auto_naming_unmarked(m) ==
    IF m.current_session.kind # "none" /\ Len(CurrentObj(m).entries) = 1
    THEN LET first_entry == CurrentObj(m).entries[1]
         IN  WithCurrentObj(m, [CurrentObj(m) EXCEPT
                 !.session_name = _generate_session_name(first_entry.prompt_text)])
    ELSE m
\* ChatHistoryManager._schedule_auto_naming
_schedule_auto_naming(m) ==
    IF m.current_session.kind # "none" /\ Len(CurrentObj(m).entries) = 1
    THEN LET first_entry == CurrentObj(m).entries[1]
         IN  WithCurrentObj(m, [CurrentObj(m) EXCEPT
                 !.session_name = _generate_session_name(first_entry.prompt_text),
                 !.auto_named = TRUE])
    ELSE m

\* an insertion after the element at i instead of before it
ListInsert_after(list, i, x) ==
    SubSeq(list, 1, Min(i + 1, Len(list))) \o <<x>> \o SubSeq(list, i + 2, Len(list))
\* list.insert(i, x) with 0 <= i <= len(list), i counted from 0
ListInsert(list, i, x) ==
    SubSeq(list, 1, i) \o <<x>> \o SubSeq(list, i + 1, Len(list))

\* a split one entry early: len(entries) >= 50
NeedsSplit_early(session) == Len(session.entries) >= SPLIT_THRESHOLD
\* the test of add_chat_entry and of _split_session: len(entries) > 50
NeedsSplit(session) == Len(session.entries) > SPLIT_THRESHOLD

\* ChatHistoryManager._split_session
_split_session(m, now) ==
    IF NeedsSplit(CurrentObj(m))
    THEN LET cur == CurrentObj(m)
             old_entries == DropLast(cur.entries, SPLIT_KEEP)
             m1 == WithCurrentObj(m, [cur EXCEPT !.entries = TakeLast(cur.entries, SPLIT_KEEP)])
             old0 == ChatSession(cur.session_name \o <<"(Part", "1)">>, None,
                                 uuid4(m.next_uuid + 1), now)
             old_session == [old0 EXCEPT
                 !.entries = old_entries,
                 !.created_at = IF old_entries # <<>> THEN old_entries[1].timestamp ELSE @,
                 !.updated_at = IF old_entries # <<>> THEN old_entries[Len(old_entries)].timestamp ELSE @,
                 !.is_saved = TRUE]
             project_id == _get_project_id(m.current_project_path)
             sessions == SessionsOf(m1, project_id)
             \* sessions.index(current) if current in sessions else len(sessions)
             current_index == IF m.current_session.kind = "listed"
                              THEN m.current_session.idx - 1 ELSE Len(sessions)
             m2 == [m1 EXCEPT !.next_uuid = @ + 1]
         IN  IF project_id \in DOMAIN m.project_sessions
             THEN [m2 EXCEPT
                     !.project_sessions[project_id] = ListInsert(sessions, current_index, old_session),
                     !.current_session = IF m.current_session.kind = "listed"
                                         THEN Listed(m.current_session.idx + 1) ELSE @]
             \* .get(project_id, []) made a list nothing else refers to
             ELSE m2
    ELSE m

\* ChatHistoryManager.add_chat_entry; returns the manager after the call
add_chat_entry(m, prompt_type, prompt_text, response_text, model_used, token_usage, w, now) ==
    LET entry == ChatEntry(now, prompt_type, prompt_text, response_text, model_used, token_usage)
        m1 == IF m.current_session.kind = "none"
              THEN start_new_session(m, <<"New", "Chat">>, now) ELSE m
        m2 == WithCurrentObj(m1, session_add_entry(CurrentObj(m1), entry, now))
        m3 == [m2 EXCEPT !.current_project_history = CurrentObj(m2).entries]
        m4 == IF Len(CurrentObj(m3).entries) = 1 /\ ~CurrentObj(m3).auto_named
              THEN _schedule_auto_naming(m3) ELSE m3
        m5 == IF NeedsSplit(CurrentObj(m4))
              THEN _split_session(m4, now) ELSE m4
    IN  save_project_sessions(m5, w, now)

\* a migration that leaves the session as the constructor made it: unsaved,
\* and stamped with the time of the migration
_migrate_legacy_history_unstamped(legacy_file, fresh, now) ==
    IF legacy_file.state # "json" THEN <<>>
    ELSE LET entries == [i \in 1..Len(legacy_file.data.entries) |->
                            entry_from_dict(legacy_file.data.entries[i])]
         IN  IF entries # <<>>
             THEN LET session == ChatSession(_generate_session_name(entries[1].prompt_text),
                                             None, fresh, now)
                  IN  << [session EXCEPT !.entries = entries, !.auto_named = TRUE] >>
             ELSE <<>>

\* ChatHistoryManager._migrate_legacy_history: the list it returns
_migrate_legacy_history(legacy_file, fresh, now) ==
    IF legacy_file.state # "json" THEN <<>>
    ELSE LET entries == [i \in 1..Len(legacy_file.data.entries) |->
                            entry_from_dict(legacy_file.data.entries[i])]
         IN  IF entries # <<>>
             THEN LET session == ChatSession(_generate_session_name(entries[1].prompt_text),
                                             None, fresh, now)
                  IN  << [session EXCEPT
                            !.entries = entries,
                            !.created_at = entries[1].timestamp,
                            !.updated_at = entries[Len(entries)].timestamp,
                            !.is_saved = TRUE,
                            !.auto_named = TRUE] >>
             ELSE <<>>

\* what load_project_sessions reads from the per-project record
StoredSessions(m, project_id, now) ==
    LET f == m.sessions_file[project_id]
    IN  IF f.state = "json"
        THEN [i \in 1..Len(f.data.sessions) |->
                 session_from_dict(f.data.sessions[i], None, now)]
        ELSE <<>>

\* whether load_project_sessions calls _migrate_legacy_history
RunsMigration(m, legacy, project_path, now) ==
    LET project_id == _get_project_id(project_path)
    IN  /\ StoredSessions(m, project_id, now) = <<>>
        /\ legacy[project_id].state # "absent"

\* ChatHistoryManager.load_project_sessions; legacy is the legacy files
load_project_sessions(m, legacy, project_path, now) ==
    LET project_id == _get_project_id(project_path)
        stored == StoredSessions(m, project_id, now)
        migrates == RunsMigration(m, legacy, project_path, now)
        sessions == IF migrates
                    THEN _migrate_legacy_history(legacy[project_id], uuid4(m.next_uuid + 1), now)
                    ELSE stored
        m1 == [m EXCEPT
                 !.current_project_path = project_path,
                 !.next_uuid = IF migrates /\ sessions # <<>> THEN @ + 1 ELSE @,
                 !.project_sessions =
                     [q \in DOMAIN m.project_sessions \cup {project_id} |->
                         IF q = project_id THEN sessions ELSE m.project_sessions[q]]]
        m2 == IF sessions = <<>> THEN start_new_session(m1, <<"New", "Chat">>, now)
              ELSE [m1 EXCEPT !.current_session = Listed(Len(sessions)),
                              !.active_session_id = sessions[Len(sessions)].session_id]
    IN  [m2 EXCEPT !.current_project_history =
                      IF m2.current_session.kind # "none" THEN CurrentObj(m2).entries ELSE <<>>]


\* ------------------------------------------------ the store as a machine
\* ChatHistoryManager.__init__ (the in-memory part)
FreshManager(files, uuid) ==
    [ current_project_path    |-> None,
      project_sessions        |-> <<>>,
      current_session         |-> NoSession,
      active_session_id       |-> None,
      current_project_history |-> <<>>,
      sessions_file           |-> files,
      next_uuid               |-> uuid ]

\* the store's variables take the values of m; the call took the clock to now
Commit(m, now, call) ==
    /\ current_project_path' = m.current_project_path
    /\ project_sessions' = m.project_sessions
    /\ current_session' = m.current_session
    /\ active_session_id' = m.active_session_id
    /\ current_project_history' = m.current_project_history
    /\ sessions_file' = m.sessions_file
    /\ next_uuid' = m.next_uuid
    /\ clock' = now
    /\ last_call' = call
    /\ named_log' = IF call.op = "add" /\ call.named # None
                    THEN Append(named_log, call.named) ELSE named_log
    /\ write_failed' = (write_failed \/ (call.op \in {"add", "save"} /\ call.lost))
    /\ UNCHANGED history_file
    /\ UNCHANGED runner_vars

\* a legacy flat-history record with n entries, written before the clock started
LegacyPrompt(i) == IF i = 2 THEN <<"login", "handler">> ELSE <<"fix", "the", "bug">>
LegacyRecord(n) ==
    Json([ entries |-> [i \in 1..n |->
              entry_to_dict(ChatEntry(i, "prompt", LegacyPrompt(i), <<"ok">>,
                                      "gpt", NoUsage))] ])
LegacyFiles == {Absent, Corrupt} \cup {LegacyRecord(n) : n \in 0..MaxLegacy}

StoreInit ==
    /\ current_project_path = None
    /\ project_sessions = <<>>
    /\ current_session = NoSession
    /\ active_session_id = None
    /\ current_project_history = <<>>
    /\ sessions_file = [q \in ProjectIds |-> Absent]
    /\ \E f \in LegacyFiles :
          history_file = [q \in ProjectIds |-> IF q = _get_project_id("projA") THEN f ELSE Absent]
    /\ clock = MaxLegacy
    /\ next_uuid = 0
    /\ last_call = [op |-> "init"]
    /\ named_log = <<>>
    /\ write_failed = FALSE

\* load_project_sessions(project_path)
LoadProjectSessions(project_path) ==
    LET now == clock + 1
        project_id == _get_project_id(project_path)
    IN  Commit(load_project_sessions(Self, history_file, project_path, now), now,
               [ op |-> "load", path |-> project_path,
                 had_record |-> sessions_file[project_id].state # "absent",
                 migrated |-> RunsMigration(Self, history_file, project_path, now) ])

\* start_new_session()
StartNewSession ==
    LET now == clock + 1
    IN  Commit(start_new_session(Self, <<"New", "Chat">>, now), now, [op |-> "start"])

\* the session ids a caller can hold: those of the sessions in memory, and a stale one
KnownIds ==
    UNION { {project_sessions[q][i].session_id : i \in 1..Len(project_sessions[q])} :
            q \in DOMAIN project_sessions }
    \cup {uuid4(0)}

\* switch_to_session(session_id)
SwitchToSession(session_id) ==
    LET now == clock + 1
        m == switch_to_session(Self, session_id)
    IN  Commit(m, now,
               [ op |-> "switch", session_id |-> session_id,
                 found |-> FirstWithId(SessionsOf(Self, _get_project_id(current_project_path)),
                                       session_id) # 0 ])

\* the test of add_chat_entry before _schedule_auto_naming, on the manager
\* the call finds: the entry will be the first of a session not yet named
AutoNames(m) ==
    \/ m.current_session.kind = "none"
    \/ CurrentObj(m).entries = <<>> /\ ~CurrentObj(m).auto_named

\* a write of the record that is attempted and fails
WriteLost(m, w) == Truthy(m.current_project_path) /\ w # "ok"

\* add_chat_entry(...); the record write does w
AddChatEntry(prompt_text, token_usage, w) ==
    LET now == clock + 1
        m == add_chat_entry(Self, "prompt", prompt_text, <<"ok">>, "gpt", token_usage, w, now)
    IN  Commit(m, now,
               [ op |-> "add", w |-> w,
                 \* the entry add_chat_entry returns
                 entry |-> ChatEntry(now, "prompt", prompt_text, <<"ok">>, "gpt", token_usage),
                 lost |-> WriteLost(Self, w),
                 named |-> IF AutoNames(Self) THEN m.active_session_id ELSE None,
                 split |-> m.next_uuid # (IF current_session.kind = "none"
                                          THEN next_uuid + 1 ELSE next_uuid) ])

\* WorkflowAutomator.close_window, answer "save": mark the session saved and save
SaveSession(w) ==
    /\ current_session.kind # "none"
    /\ CurrentObj(Self).entries # <<>>
    /\ ~CurrentObj(Self).is_saved
    /\ LET now == clock + 1
           m == WithCurrentObj(Self, [CurrentObj(Self) EXCEPT !.is_saved = TRUE])
       IN  Commit(save_project_sessions(m, w, now), now,
                  [op |-> "save", w |-> w, lost |-> WriteLost(Self, w)])

\* ChatHistoryManager.clear_current_project_history: the flat history is
\* rebound to a new empty list, then the call of save_project_history, a
\* method the class does not have, raises AttributeError
clear_current_project_history(m) ==
    [m EXCEPT !.current_project_history = <<>>]

\* WorkflowAutomator.clear_chat_history with a project loaded
ClearChatHistory ==
    /\ Truthy(current_project_path)
    /\ Commit(clear_current_project_history(Self), clock + 1,
              [op |-> "clear", raised |-> "AttributeError"])

\* the process ends and a new ChatHistoryManager is constructed: the files stay
RestartStore ==
    Commit(FreshManager(sessions_file, next_uuid), clock + 1, [op |-> "restart"])


\* ------------------------------------------------------------ ClaudeRunner
(***************************************************************************)
(* Values.  A Python string is Str(s); None and JSON null are JNull.  The  *)
(* child's stdout is a plain text Str(s) or a JSON document Doc(v), v an   *)
(* object Obj(fields) or a value that is no object.  A field an object     *)
(* does not carry is Missing.                                              *)
(***************************************************************************)
Str(s) == [str |-> s]
JNull == [null |-> TRUE]
JTrue == [bool |-> TRUE]
JFalse == [bool |-> FALSE]
JNum(n) == [num |-> n]
Missing == [missing |-> TRUE]
Obj(fields) == [obj |-> fields]
Doc(v) == [json |-> v]
Unset == [unset |-> TRUE]

\* str.strip() on the texts of the model
StripStr(s) ==
    CASE s \in {"", "\n"} -> ""
      [] s \in {"plain prose", "plain prose\n"} -> "plain prose"
      [] s \in {"boom", "boom\n"} -> "boom"
      [] OTHER -> s
\* stdout.strip(): the JSON documents of the model carry no outer whitespace
Strip(x) == IF "str" \in DOMAIN x THEN Str(StripStr(x.str)) ELSE x

\* Python truthiness of a value
IsTruthy(v) ==
    CASE "str" \in DOMAIN v -> v.str # ""
      [] "bool" \in DOMAIN v -> v.bool
      [] "num" \in DOMAIN v -> v.num # 0
      [] "obj" \in DOMAIN v -> TRUE
      [] OTHER -> FALSE

\* the responses the agent may print on exit status 0
ErrorFlags == {Missing, JFalse, JTrue}
ErrorMessages == {Missing, Str("boom")}
SessionIdFields == {Missing, Str("s1"), Str("s2")}
ResultFields == {Missing, Str(""), Str("\n"), Str("answer"), JNum(5)}
MessageFields == {Missing, Str(""), Str("msg")}
Objects ==
    { Obj(f) : f \in { g \in [ is_error : ErrorFlags, error_message : ErrorMessages,
                              session_id : SessionIdFields, result : ResultFields,
                              message : MessageFields ] :
                         g.error_message # Missing => g.is_error = JTrue } }
NonObjects == {JNum(42), JNull, Str("done")}
PlainTexts == {Str(""), Str("\n"), Str("plain prose"), Str("plain prose\n")}
Stdouts == PlainTexts \cup {Doc(v) : v \in Objects \cup NonObjects}
Stderrs == {Str(""), Str("boom\n")}

\* json.loads(output): the value, or Unset for JSONDecodeError
json_loads(output) == IF "json" \in DOMAIN output THEN output.json ELSE Unset
IsObject(v) == "obj" \in DOMAIN v
\* key in json_output, json_output[key], json_output.get(key, default)
Has(o, key) == key \in DOMAIN o.obj /\ o.obj[key] # Missing
Get(o, key, default) == IF Has(o, key) THEN o.obj[key] ELSE default

\* the fixed texts of execute_claude_prompt
SENTINEL == Str("Claude completed the task. Check your files for changes.")
UNKNOWN_ERROR == Str("Unknown error from Claude")
NOT_FOUND == Str("Claude Code CLI not found. Please ensure 'claude' command is available in PATH.")
NO_WORKDIR == Str("Working directory does not exist")
\* a timeout message that names the default bound, not the one of the call
TimedOut_default(timeout) ==
    [str |-> "Claude execution timed out after N seconds", N |-> 300]
TimedOut(timeout) == [str |-> "Claude execution timed out after N seconds", N |-> timeout]
ExitedWith(returncode) == [str |-> "Claude failed with return code N", N |-> returncode]
\* str(e) of an exception execute_claude_prompt did not expect
Unexpected(what) == [str |-> "exception", what |-> what]
DEFAULT_TIMEOUT == 300

Ret(ok, text, error) == [ok |-> ok, text |-> text, error |-> error]
Failure(error) == Ret(FALSE, Str(""), error)
Success(text) == Ret(TRUE, text, Str(""))


\* an error flag that counts only when the response carries no result
IsErrorResponse_unlessResult(json_output) ==
    /\ IsTruthy(Get(json_output, "is_error", JFalse))
    /\ ~Has(json_output, "result")
\* json_output.get('is_error', False)
IsErrorResponse(json_output) == IsTruthy(Get(json_output, "is_error", JFalse))
\* a store of the handle only when the response also carries a usable result
HasSessionId_withResult(json_output) ==
    /\ Has(json_output, "session_id")
    /\ Has(json_output, "result")
    /\ IsTruthy(json_output.obj.result)
\* 'session_id' in json_output
HasSessionId(json_output) == Has(json_output, "session_id")

\* an extraction whose AttributeError no handler catches
ExtractText_uncaught(json_output, output) ==
    IF Has(json_output, "result")
    THEN LET result_text == json_output.obj.result
         IN  IF ~IsTruthy(result_text) THEN Success(SENTINEL)
             ELSE IF "str" \notin DOMAIN result_text
                  THEN [raised |-> "AttributeError: strip"]
             ELSE IF StripStr(result_text.str) = "" THEN Success(SENTINEL)
             ELSE Success(result_text)
    ELSE IF Has(json_output, "message") THEN Success(json_output.obj.message)
    ELSE Success(Get(json_output, "result", output))
\* the answer text of a response without the error flag (lines 145-159)
ExtractText(json_output, output) ==
    IF Has(json_output, "result")
    THEN LET result_text == json_output.obj.result
         IN  IF ~IsTruthy(result_text) THEN Success(SENTINEL)
             ELSE IF "str" \notin DOMAIN result_text
                  THEN Failure(Unexpected("AttributeError: strip"))
             ELSE IF StripStr(result_text.str) = "" THEN Success(SENTINEL)
             ELSE Success(result_text)
    ELSE IF Has(json_output, "message") THEN Success(json_output.obj.message)
    ELSE Success(Get(json_output, "result", output))

\* the command line execute_claude_prompt builds (lines 58-84)
\* a command that asks for no continuation when no handle is given
BuildArgs_fresh(enable_editing, resume_session_id, allowed_tools) ==
    <<"claude">>
    \o (IF IsTruthy(resume_session_id)
        THEN <<"--resume", resume_session_id.str>> ELSE <<>>)
    \o (IF ~enable_editing
        THEN <<"-p", "--output-format", "json">> ELSE <<"--output-format", "json">>)
    \o <<"--permission-mode", IF ~enable_editing THEN "plan" ELSE "acceptEdits">>
    \o (IF allowed_tools = <<>> THEN <<>>
        ELSE [i \in 1..(2 * Len(allowed_tools)) |->
                 IF i % 2 = 1 THEN "--allowedTools" ELSE allowed_tools[i \div 2]])
\* a command that accepts edits in both modes
BuildArgs_acceptEdits(enable_editing, resume_session_id, allowed_tools) ==
    <<"claude">>
    \o (IF IsTruthy(resume_session_id)
        THEN <<"--resume", resume_session_id.str>> ELSE <<"--continue">>)
    \o (IF ~enable_editing
        THEN <<"-p", "--output-format", "json">> ELSE <<"--output-format", "json">>)
    \o <<"--permission-mode", "acceptEdits">>
    \o (IF allowed_tools = <<>> THEN <<>>
        ELSE [i \in 1..(2 * Len(allowed_tools)) |->
                 IF i % 2 = 1 THEN "--allowedTools" ELSE allowed_tools[i \div 2]])
\* the command line of execute_claude_prompt (lines 58-84)
BuildArgs(enable_editing, resume_session_id, allowed_tools) ==
    <<"claude">>
    \o (IF IsTruthy(resume_session_id)
        THEN <<"--resume", resume_session_id.str>> ELSE <<"--continue">>)
    \o (IF ~enable_editing
        THEN <<"-p", "--output-format", "json">> ELSE <<"--output-format", "json">>)
    \o <<"--permission-mode", IF ~enable_editing THEN "plan" ELSE "acceptEdits">>
    \o (IF allowed_tools = <<>> THEN <<>>
        ELSE [i \in 1..(2 * Len(allowed_tools)) |->
                 IF i % 2 = 1 THEN "--allowedTools" ELSE allowed_tools[i \div 2]])

\* ClaudeRunner.load_session_data: the handle after it, current the one before
load_session_data(file, current) ==
    IF file.state = "json" /\ IsObject(file.data)
    THEN Get(file.data, "last_session_id", JNull)
    ELSE current

\* a save that leaves the file as it is
save_session_data_skipped(file, data, w) == file
\* ClaudeRunner.save_session_data: the file after open(.., 'w') and
\* json.dump(data, f); an exception of either is printed and dropped, and
\* a dump that fails leaves the file open() has truncated
save_session_data(file, data, w) ==
    CASE w = "ok" -> Json(Obj(data))
      [] w = "open_failed" -> file
      [] OTHER -> Corrupt

Workers == {1, 2}
MaxRestarts == 2

\* no thread: the call is made by the caller itself
NoThread == [unset |-> TRUE]
\* the timeouts a caller passes
Timeouts == {DEFAULT_TIMEOUT, 10}

\* the locals of a call: spawned counts its calls of subprocess.run, raised is
\* what subprocess.run raised, thread the run_async closure it runs in, if any
NoFrame ==
    [ args |-> Unset, given |-> Unset, found |-> Unset, timeout |-> Unset, temp_file |-> FALSE, spawned |-> 0,
      raised |-> Unset, result |-> Unset, output |-> Unset, json_output |-> Unset, data |-> Unset,
      written |-> Unset, ret |-> Unset, thread |-> NoThread ]

ToolLists == {<<>>, <<"Edit", "Write">>}

\* worker t is free when it runs no call: "done" is a call that has returned,
\* its locals kept for what it returned and what it had been given
Free(t) ==
    \/ pc[t] = "idle"
    \/ pc[t] = "done" /\ frame[t].thread = NoThread
    \/ pc[t] = "ended"

\* the call of worker t returns ret; temp_left: its prompt file still exists
Finish(t, ret, temp_left) ==
    /\ pc' = [pc EXCEPT ![t] = "done"]
    /\ frame' = [frame EXCEPT ![t].ret = ret, ![t].temp_file = temp_left]

\* execute_claude_prompt, from its entry to the call of subprocess.run; the
\* call is made by the caller itself or by the thread started for it
Call(t, working_directory_exists, timeout, enable_editing, resume_session_id, allowed_tools) ==
    /\ Free(t) \/ pc[t] = "started"
    /\ LET enter == [NoFrame EXCEPT
                       !.timeout = timeout,
                       \* the handle and its record as a call made by the
                       \* caller itself finds them; a call run by a thread
                       \* shares them with the other threads from the start
                       !.found = IF pc[t] = "started" THEN Unset
                                 ELSE [ last_session_id |-> last_session_id,
                                        session_file |-> session_file,
                                        instance |-> instance ],
                       !.thread = IF pc[t] = "started" THEN frame[t].thread ELSE NoThread]
       IN  IF ~working_directory_exists
           THEN /\ pc' = [pc EXCEPT ![t] = "done"]
                /\ frame' = [frame EXCEPT ![t] = [enter EXCEPT !.ret = Failure(NO_WORKDIR)]]
           ELSE /\ pc' = [pc EXCEPT ![t] = "spawn"]
                /\ frame' = [frame EXCEPT ![t] = [enter EXCEPT
                      !.args = BuildArgs(enable_editing, resume_session_id, allowed_tools),
                      !.given = [ enable_editing |-> enable_editing,
                                  resume_session_id |-> resume_session_id,
                                  allowed_tools |-> allowed_tools ],
                      !.temp_file = TRUE]]
    /\ UNCHANGED <<last_session_id, session_file, instance>>
    /\ UNCHANGED store_vars

\* what subprocess.run does
SpawnOutcomes ==
    {[kind |-> k] : k \in {"not_found", "timeout", "exception"}}
    \cup {[kind |-> "completed", returncode |-> 0, stdout |-> out, stderr |-> Str("")] :
             out \in Stdouts}
    \cup {[kind |-> "completed", returncode |-> 1, stdout |-> Str(""), stderr |-> err] :
             err \in Stderrs}

\* a call that spawns again after a timeout
AfterSpawn_retry(outcome) ==
    CASE outcome.kind = "completed" -> "decode"
      [] outcome.kind = "timeout" -> "spawn"
      [] OTHER -> "done"
\* where the call goes after subprocess.run: on to the decoding, or to a return
AfterSpawn(outcome) == IF outcome.kind = "completed" THEN "decode" ELSE "done"

\* subprocess.run and the handlers of what it raises (lines 86-117, 169-187)
Spawn(t, outcome) ==
    /\ pc[t] = "spawn"
    /\ pc' = [pc EXCEPT ![t] = AfterSpawn(outcome)]
    /\ LET ran == [frame[t] EXCEPT
                     !.spawned = @ + 1,
                     !.raised = IF outcome.kind = "completed" THEN Unset
                                ELSE [kind |-> outcome.kind]]
       IN  frame' = [frame EXCEPT ![t] =
             CASE outcome.kind = "not_found" ->
                    [ran EXCEPT !.ret = Failure(NOT_FOUND), !.temp_file = FALSE]
               [] outcome.kind = "timeout" ->
                    [ran EXCEPT !.ret = Failure(TimedOut(ran.timeout)), !.temp_file = FALSE]
               \* any other exception reaches the outer handler, which unlinks nothing
               [] outcome.kind = "exception" ->
                    [ran EXCEPT !.ret = Failure(Unexpected("subprocess.run")),
                                !.temp_file = TRUE]
               [] OTHER ->
                    [ran EXCEPT !.result = outcome, !.temp_file = FALSE,
                                !.args = Unset, !.given = Unset]]
    /\ UNCHANGED <<last_session_id, session_file, instance>>
    /\ UNCHANGED store_vars

\* the decoding of a finished process, up to the store of the handle (lines 119-138)
Decode(t) ==
    /\ pc[t] = "decode"
    /\ LET result == frame[t].result
           output == Strip(result.stdout)
           json_output == json_loads(output)
           decoded == [frame EXCEPT ![t].output = output, ![t].json_output = json_output]
       IN  IF result.returncode # 0
           THEN Finish(t, Failure(IF IsTruthy(result.stderr) THEN Strip(result.stderr)
                                  ELSE ExitedWith(result.returncode)), FALSE)
           ELSE IF json_output = Unset
           THEN /\ pc' = [pc EXCEPT ![t] = "done"]
                /\ frame' = [decoded EXCEPT ![t].ret = Success(output)]
           ELSE IF ~IsObject(json_output)
           THEN /\ pc' = [pc EXCEPT ![t] = "done"]
                /\ frame' = [decoded EXCEPT ![t].ret = Failure(Unexpected("AttributeError: get"))]
           ELSE IF IsErrorResponse(json_output)
           THEN /\ pc' = [pc EXCEPT ![t] = "done"]
                /\ frame' = [decoded EXCEPT
                      ![t].ret = Failure(Get(json_output, "error_message", UNKNOWN_ERROR))]
           ELSE /\ pc' = [pc EXCEPT ![t] = IF HasSessionId(json_output)
                                           THEN "store" ELSE "extract"]
                /\ frame' = decoded
    /\ UNCHANGED <<last_session_id, session_file, instance>>
    /\ UNCHANGED store_vars

\* self.last_session_id = json_output['session_id'] (line 135)
StoreHandle(t) ==
    /\ pc[t] = "store"
    /\ last_session_id' = frame[t].json_output.obj.session_id
    /\ pc' = [pc EXCEPT ![t] = "save"]
    /\ UNCHANGED <<frame, session_file, instance>>
    /\ UNCHANGED store_vars

\* save_session_data: data = {'last_session_id': self.last_session_id} (line 343)
SaveRead(t) ==
    /\ pc[t] = "save"
    /\ frame' = [frame EXCEPT ![t].data = [last_session_id |-> last_session_id]]
    /\ pc' = [pc EXCEPT ![t] = "write"]
    /\ UNCHANGED <<last_session_id, session_file, instance>>
    /\ UNCHANGED store_vars

\* save_session_data: open and json.dump(data, f), with outcome w (lines 344-348)
SaveWrite(t, w) ==
    /\ pc[t] = "write"
    /\ session_file' = save_session_data(session_file, frame[t].data, w)
    /\ pc' = [pc EXCEPT ![t] = "extract"]
    /\ frame' = [frame EXCEPT ![t].written = [outcome |-> w]]
    /\ UNCHANGED <<last_session_id, instance>>
    /\ UNCHANGED store_vars

\* the answer text is extracted and returned (lines 140-159)
Extract(t) ==
    /\ pc[t] = "extract"
    /\ Finish(t, ExtractText(frame[t].json_output, frame[t].output), FALSE)
    /\ UNCHANGED <<last_session_id, session_file, instance>>
    /\ UNCHANGED store_vars

\* execute_claude_prompt_async: the thread is started with the arguments of
\* the call and the caller goes on (lines 214-216)
StartThread(t, has_callback, working_directory_exists, resume_session_id) ==
    /\ Free(t)
    /\ pc' = [pc EXCEPT ![t] = "started"]
    /\ frame' = [frame EXCEPT ![t] = [NoFrame EXCEPT !.thread =
          [ callback |-> has_callback, callbacks |-> 0,
            working_directory_exists |-> working_directory_exists,
            resume_session_id |-> resume_session_id ]]]
    /\ UNCHANGED <<last_session_id, session_file, instance>>
    /\ UNCHANGED store_vars

\* run_async calls execute_claude_prompt with what the thread was given (lines 204-207)
RunAsync(t) ==
    /\ pc[t] = "started"
    /\ Call(t, frame[t].thread.working_directory_exists, DEFAULT_TIMEOUT, TRUE,
            frame[t].thread.resume_session_id, <<>>)

\* run_async hands the tuple to the callback, which returns or raises (lines 208-209)
Deliver(t, raises) ==
    /\ pc[t] = "done"
    /\ frame[t].thread # NoThread
    /\ IF ~frame[t].thread.callback
       THEN /\ ~raises
            /\ pc' = [pc EXCEPT ![t] = "ended"]
            /\ UNCHANGED frame
       ELSE /\ pc' = [pc EXCEPT ![t] = IF raises THEN "except" ELSE "ended"]
            /\ frame' = [frame EXCEPT ![t].thread.callbacks = @ + 1]
    /\ UNCHANGED <<last_session_id, session_file, instance>>
    /\ UNCHANGED store_vars

\* the handler of run_async: callback(False, "", str(e)); the thread ends
\* whether that call returns or raises (lines 210-212)
ExceptHandler(t) ==
    /\ pc[t] = "except"
    /\ pc' = [pc EXCEPT ![t] = "ended"]
    /\ frame' = [frame EXCEPT ![t].thread.callbacks =
                    IF frame[t].thread.callback THEN @ + 1 ELSE @]
    /\ UNCHANGED <<last_session_id, session_file, instance>>
    /\ UNCHANGED store_vars

\* ClaudeRunner.__init__ of a new instance (a restart): the file stays
Construct ==
    /\ instance < MaxRestarts
    /\ instance' = instance + 1
    /\ last_session_id' = load_session_data(session_file, JNull)
    /\ pc' = [t \in Workers |-> "idle"]
    /\ frame' = [t \in Workers |-> NoFrame]
    /\ UNCHANGED session_file
    /\ UNCHANGED store_vars

\* the handle record the first instance may find
HandleFiles ==
    {Absent, Corrupt, Json(Obj([last_session_id |-> Str("s0")])), Json(Obj([other |-> JNull]))}

\* no executor call is under way and no handle record exists
RunnerIdle ==
    /\ last_session_id = JNull
    /\ session_file = Absent
    /\ pc = [t \in Workers |-> "idle"]
    /\ frame = [t \in Workers |-> NoFrame]
    /\ instance = 0

\* ---------------------------------------------------------- specifications
\* the calls a behaviour of SpecStore may still make
StoreBudget == clock < MaxLegacy + MaxOps

StoreNext ==
    \/ \E p \in Paths : StoreBudget /\ LoadProjectSessions(p)
    \/ StoreBudget /\ StartNewSession
    \/ \E id \in KnownIds : StoreBudget /\ SwitchToSession(id)
    \/ \E prompt \in Prompts, w \in WriteOutcomes :
          StoreBudget /\ AddChatEntry(prompt, NoUsage, w)
    \/ \E w \in WriteOutcomes : StoreBudget /\ SaveSession(w)
    \/ StoreBudget /\ RestartStore
    \/ StoreBudget /\ ClearChatHistory

InitStore == StoreInit /\ RunnerIdle
SpecStore == InitStore /\ [][StoreNext]_vars


(***************************************************************************)
(* SpecSplit: long runs of add_chat_entry.  It starts in the states the    *)
(* handlers themselves produce: a manager nothing was loaded into, one     *)
(* loaded with the empty path, and one loaded with projA, given up to      *)
(* MaxListed more empty sessions and switched to any of them.              *)
(***************************************************************************)
NoFiles == [q \in ProjectIds |-> Absent]

RECURSIVE Started(_)
\* load_project_sessions("projA") and then k calls of start_new_session
Started(k) ==
    IF k = 0 THEN load_project_sessions(FreshManager(NoFiles, 0), NoFiles, "projA", 0)
    ELSE start_new_session(Started(k - 1), <<"New", "Chat">>, 0)

SplitStarts ==
    {FreshManager(NoFiles, 0)}
    \cup {load_project_sessions(FreshManager(NoFiles, 0), NoFiles, "", 0)}
    \cup UNION { {switch_to_session(Started(k), uuid4(i)) : i \in 1..(k + 1)} :
                 k \in 0..MaxListed }

SplitPrompt == <<"fix", "the", "bug">>
SplitBudget == clock < MaxSplitAdds

InitSplit ==
    /\ \E m \in SplitStarts :
          /\ current_project_path = m.current_project_path
          /\ project_sessions = m.project_sessions
          /\ current_session = m.current_session
          /\ active_session_id = m.active_session_id
          /\ current_project_history = m.current_project_history
          /\ sessions_file = m.sessions_file
          /\ next_uuid = m.next_uuid
    /\ history_file = NoFiles
    /\ clock = 0
    /\ last_call = [op |-> "init"]
    /\ named_log = <<>>
    /\ write_failed = FALSE
    /\ RunnerIdle

SplitNext == SplitBudget /\ AddChatEntry(SplitPrompt, NoUsage, "ok")

SpecSplit == InitSplit /\ [][SplitNext]_vars

(***************************************************************************)
(* SpecNaming: sessions of one project that are named, switched, saved and *)
(* loaded again.  It starts in states the handlers produce: a manager      *)
(* nothing was loaded into, one whose project holds an empty session and   *)
(* a named one, both written, and one whose active session holds           *)
(* SPLIT_THRESHOLD entries, so that the next entry splits it.              *)
(***************************************************************************)
MaxNamingOps == 5

\* a session that add_chat_entry named on its first entry and that holds n entries
NamedSession(session_id, n) ==
    [ ChatSession(_generate_session_name(SplitPrompt), session_id, session_id, 0) EXCEPT
        !.entries = [i \in 1..n |->
                        ChatEntry(i, "prompt", SplitPrompt, <<"ok">>, "gpt", NoUsage)],
        !.updated_at = n,
        !.auto_named = TRUE ]

\* a manager of projA that holds the sessions of list, the idx-th active, after
\* the add_chat_entry that wrote them at time now
StartOf(list, idx, now) ==
    save_project_sessions(
        [ current_project_path    |-> "projA",
          project_sessions        |-> (_get_project_id("projA") :> list),
          current_session         |-> Listed(idx),
          active_session_id       |-> list[idx].session_id,
          current_project_history |-> list[idx].entries,
          sessions_file           |-> NoFiles,
          next_uuid               |-> Len(list) ],
        "ok", now)

\* load_project_sessions("projA"), start_new_session(), add_chat_entry(...)
TwoSessions ==
    StartOf(<<ChatSession(<<"New", "Chat">>, uuid4(1), uuid4(1), 0),
              [NamedSession(uuid4(2), 1) EXCEPT !.created_at = 1]>>, 2, 1)

\* load_project_sessions("projA") and SPLIT_THRESHOLD calls of add_chat_entry
Filled == StartOf(<<NamedSession(uuid4(1), SPLIT_THRESHOLD)>>, 1, SPLIT_THRESHOLD)

NamingStarts ==
    { [m |-> FreshManager(NoFiles, 0), log |-> <<>>],
      [m |-> TwoSessions, log |-> <<uuid4(2)>>],
      [m |-> Filled, log |-> <<uuid4(1)>>] }

InitNaming ==
    /\ \E start \in NamingStarts :
          /\ current_project_path = start.m.current_project_path
          /\ project_sessions = start.m.project_sessions
          /\ current_session = start.m.current_session
          /\ active_session_id = start.m.active_session_id
          /\ current_project_history = start.m.current_project_history
          /\ sessions_file = start.m.sessions_file
          /\ next_uuid = start.m.next_uuid
          /\ named_log = start.log
    /\ history_file = NoFiles
    /\ clock = SPLIT_THRESHOLD
    /\ last_call = [op |-> "init"]
    /\ write_failed = FALSE
    /\ RunnerIdle

NamingBudget == clock < SPLIT_THRESHOLD + MaxNamingOps

NamingNext ==
    \/ NamingBudget /\ LoadProjectSessions("projA")
    \/ NamingBudget /\ StartNewSession
    \/ \E id \in KnownIds : NamingBudget /\ SwitchToSession(id)
    \/ \E w \in {"ok", "open_failed"} : NamingBudget /\ AddChatEntry(SplitPrompt, NoUsage, w)
    \/ NamingBudget /\ SaveSession("ok")

SpecNaming == InitNaming /\ [][NamingNext]_vars

(***************************************************************************)
(* SpecText: sessions of projA, the first entry of the first of any prompt *)
(* text of up to MaxWords words, with or without a token_usage map; the    *)
(* sessions are named, written to the record and read back.               *)
(***************************************************************************)
MaxWords == 2
MaxTextOps == 3
TextWords == {"Please", "analyze", "fix", "the", LongWord, "déjà"}
TextPrompts == UNION { [1..n -> TextWords] : n \in 0..MaxWords }
Usages == { NoUsage, [given |-> TRUE, map |-> {<<"total_tokens", 3>>}] }

\* load_project_sessions("projA") on a new store without files
InitText ==
    /\ \E m \in {load_project_sessions(FreshManager(NoFiles, 0), NoFiles, "projA", 0)} :
          /\ current_project_path = m.current_project_path
          /\ project_sessions = m.project_sessions
          /\ current_session = m.current_session
          /\ active_session_id = m.active_session_id
          /\ current_project_history = m.current_project_history
          /\ sessions_file = m.sessions_file
          /\ next_uuid = m.next_uuid
    /\ history_file = NoFiles
    /\ clock = 0
    /\ last_call = [op |-> "init"]
    /\ named_log = <<>>
    /\ write_failed = FALSE
    /\ RunnerIdle

TextBudget == clock < MaxTextOps + 1

\* the texts of the next entry: any text for the first entry that names a session
NextPrompts == IF named_log = <<>> THEN TextPrompts ELSE Prompts
NextUsages == IF named_log = <<>> THEN Usages ELSE {NoUsage}

TextNext ==
    \/ \E prompt \in NextPrompts, usage \in NextUsages :
          clock < MaxTextOps /\ AddChatEntry(prompt, usage, "ok")
    \/ TextBudget /\ StartNewSession
    \/ TextBudget /\ LoadProjectSessions("projA")

SpecText == InitText /\ [][TextNext]_vars

(***************************************************************************)
(* SpecRunner: one executor whose calls are made one after the other by    *)
(* one caller, every response of Stdouts, and restarts of the process.     *)
(***************************************************************************)
Callers == {1}
\* a store no project was loaded into
StoreIdle ==
    /\ current_project_path = None
    /\ project_sessions = <<>>
    /\ current_session = NoSession
    /\ active_session_id = None
    /\ current_project_history = <<>>
    /\ sessions_file = NoFiles
    /\ history_file = NoFiles
    /\ clock = 0
    /\ next_uuid = 0
    /\ last_call = [op |-> "init"]
    /\ named_log = <<>>
    /\ write_failed = FALSE

InitRunner ==
    /\ StoreIdle
    /\ \E f \in HandleFiles :
          /\ session_file = f
          /\ last_session_id = load_session_data(f, JNull)
    /\ pc = [t \in Workers |-> "idle"]
    /\ frame = [t \in Workers |-> NoFrame]
    /\ instance = 0

AllFree == \A t \in Workers : Free(t)

RunnerNext ==
    \/ \E t \in Callers, wd \in BOOLEAN, timeout \in Timeouts, ed \in BOOLEAN,
          tools \in ToolLists, resume \in {JNull, Str(""), last_session_id} :
          AllFree /\ Call(t, wd, timeout, ed, resume, tools)
    \/ \E t \in Workers, o \in SpawnOutcomes : Spawn(t, o)
    \/ \E t \in Workers : Decode(t)
    \/ \E t \in Workers : StoreHandle(t)
    \/ \E t \in Workers : SaveRead(t)
    \/ \E t \in Workers, w \in WriteOutcomes : SaveWrite(t, w)
    \/ \E t \in Workers : Extract(t)
    \/ Construct

SpecRunner == InitRunner /\ [][RunnerNext]_vars

(***************************************************************************)
(* SpecAsync: one executor whose calls are made through                    *)
(* execute_claude_prompt_async, each in a thread of its own, as the window *)
(* makes them: editing enabled, the last handle as the session to resume.  *)
(* The threads run interleaved.                                            *)
(***************************************************************************)
AsyncStdouts ==
    { Doc(Obj([ is_error |-> e, error_message |-> Missing, session_id |-> sid,
                result |-> Str("answer"), message |-> Missing ])) :
        e \in {Missing, JTrue}, sid \in {Str("s1"), Str("s2")} }
AsyncOutcomes ==
    {[kind |-> k] : k \in {"not_found", "timeout"}}
    \cup {[kind |-> "completed", returncode |-> 0, stdout |-> out, stderr |-> Str("")] :
             out \in AsyncStdouts}

InitAsync ==
    /\ StoreIdle
    /\ last_session_id = JNull
    /\ session_file = Absent
    /\ pc = [t \in Workers |-> "idle"]
    /\ frame = [t \in Workers |-> NoFrame]
    /\ instance = 0

AsyncNext ==
    \/ \E t \in Workers, cb \in BOOLEAN, wd \in BOOLEAN :
          StartThread(t, cb, wd, last_session_id)
    \/ \E t \in Workers : RunAsync(t)
    \/ \E t \in Workers, o \in AsyncOutcomes : Spawn(t, o)
    \/ \E t \in Workers : Decode(t)
    \/ \E t \in Workers : StoreHandle(t)
    \/ \E t \in Workers : SaveRead(t)
    \/ \E t \in Workers, w \in WriteOutcomes : SaveWrite(t, w)
    \/ \E t \in Workers : Extract(t)
    \/ \E t \in Workers, raises \in BOOLEAN : Deliver(t, raises)
    \/ \E t \in Workers : ExceptHandler(t)

SpecAsync == InitAsync /\ [][AsyncNext]_vars

\* ------------------------------------------------------------------ claims
\* the list of the current project, as _split_session and switch_to_session see it
CurList == SessionsOf(Self, _get_project_id(current_project_path))
\* the i-th entry appended in a behaviour of SpecSplit
Appended(i) == ChatEntry(i, "prompt", SplitPrompt, <<"ok">>, "gpt", NoUsage)
AppendedRange(a, b) == [i \in 1..(b - a + 1) |-> Appended(a + i - 1)]
OthersEmpty(L, keep) == \A i \in 1..Len(L) : i \in keep \/ L[i].entries = <<>>
SessionIds(L) == [i \in 1..Len(L) |-> L[i].session_id]

(* C1: from an empty active session of a loaded project, 51 consecutive
   add_chat_entry calls trigger exactly one split, on the 51st: until then the
   active session holds every appended entry and no session was created; after
   it the session right before the active one holds the first 26 entries, the
   active one the last 25 in append order, no other session holds any, and a
   project that started with one session holds exactly two. *)
C1_OneSplitAt51 ==
    (Truthy(current_project_path) /\ clock <= SPLIT_THRESHOLD + 1) =>
        /\ current_session.kind = "listed"
        /\ LET L == CurList
               a == current_session.idx
           IN  IF clock <= SPLIT_THRESHOLD
               THEN /\ L[a].entries = AppendedRange(1, clock)
                    /\ OthersEmpty(L, {a})
                    /\ ~(last_call.op = "add" /\ last_call.split)
               ELSE /\ a > 1
                    /\ L[a].entries = AppendedRange(clock - SPLIT_KEEP + 1, clock)
                    /\ Len(L[a].entries) = SPLIT_KEEP
                    /\ L[a - 1].entries = AppendedRange(1, clock - SPLIT_KEEP)
                    /\ OthersEmpty(L, {a - 1, a})
                    /\ Len(L) = next_uuid
                    /\ (\A i \in 1..Len(L) : L[i].entries # <<>>) => Len(L) = 2

C1_Witness ==
    /\ Truthy(current_project_path)
    /\ clock = SPLIT_THRESHOLD + 1
    /\ last_call.op = "add" /\ last_call.split
    /\ Len(CurList) = 2
    /\ Len(CurrentObj(Self).entries) = SPLIT_KEEP

(* C2: whenever add_chat_entry triggers a split, the active session keeps its
   session_id and stays active, and the session created for the older entries is
   marked is_saved and sits in the project's list immediately before the active
   session, the other sessions keeping their relative order. *)
C2_SplitPlacement ==
    [][ (last_call'.op = "add" /\ last_call'.split /\ clock' # clock) =>
          /\ current_session'.kind = "listed"
          /\ active_session_id' = active_session_id
          /\ LET L == CurList'
                 a == current_session'.idx
             IN  /\ a > 1
                 /\ L[a].session_id = active_session_id
                 /\ L[a - 1].is_saved
                 /\ L[a - 1].session_id = uuid4(next_uuid')
                 /\ SessionIds(SubSeq(L, 1, a - 2) \o SubSeq(L, a, Len(L)))
                        = SessionIds(CurList) ]_vars


\* the legacy record of the project the last load_project_sessions named
LoadedLegacy == history_file[_get_project_id(last_call.path)]
LoadedList == SessionsOf(Self, _get_project_id(last_call.path))

(* C3: load_project_sessions is idempotent: a second call for the same project
   right after the first, with nothing written in between, leaves the active
   session id and the project's sessions and entries as the first call left
   them, whatever the persisted state. *)
C3_LoadIdempotent ==
    [][ ( /\ last_call.op = "load"
          /\ last_call'.op = "load"
          /\ last_call'.path = last_call.path
          /\ clock' # clock ) =>
          /\ active_session_id' = active_session_id
          /\ LoadedList' = LoadedList ]_vars

(* C4: load_project_sessions attempts the migration of the legacy record only
   when no per-project session record exists. *)
C4_MigrationOnlyWithoutRecord ==
    (last_call.op = "load" /\ last_call.migrated) => ~last_call.had_record

(* C5: with a legacy record of n >= 1 entries and no per-project record,
   load_project_sessions leaves exactly one session, holding those n entries in
   their order, auto_named and is_saved, created_at and updated_at the first
   and the last entry's timestamp, and that session is the active one. *)
C5_MigrationResult ==
    ( /\ last_call.op = "load"
      /\ ~last_call.had_record
      /\ LoadedLegacy.state = "json"
      /\ Len(LoadedLegacy.data.entries) >= 1 ) =>
        LET legacy == LoadedLegacy.data.entries
            L == LoadedList
        IN  /\ last_call.migrated
            /\ Len(L) = 1
            /\ [i \in 1..Len(L[1].entries) |-> entry_to_dict(L[1].entries[i])] = legacy
            /\ L[1].auto_named
            /\ L[1].is_saved
            /\ L[1].created_at = legacy[1].timestamp
            /\ L[1].updated_at = legacy[Len(legacy)].timestamp
            /\ current_session = Listed(1)
            /\ active_session_id = L[1].session_id

C5_Witness ==
    /\ last_call.op = "load"
    /\ last_call.migrated
    /\ ~last_call.had_record
    /\ LoadedLegacy.state = "json"
    /\ Len(LoadedLegacy.data.entries) >= 3
    /\ Len(LoadedList) = 1
    /\ Len(LoadedList[1].entries) = Len(LoadedLegacy.data.entries)


\* a call of worker t that ended with exit status 0, and what it printed
Exited0(t) ==
    /\ frame[t].result # Unset
    /\ frame[t].result.returncode = 0
Printed(t) == frame[t].result.stdout
\* worker t's child printed a JSON object with the error flag set
Flagged(t) ==
    /\ Exited0(t)
    /\ IsObject(json_loads(Printed(t)))
    /\ Printed(t).json.obj.is_error = JTrue
\* worker t's child printed a JSON object without the error flag and with a
\* session_id, and the call is past the store of the handle
ReceivedId(t) ==
    /\ pc[t] \in {"extract", "done"}
    /\ Exited0(t)
    /\ IsObject(json_loads(Printed(t)))
    /\ Printed(t).json.obj.is_error \in {Missing, JFalse}
    /\ Printed(t).json.obj.session_id # Missing
PrintedId(t) == Printed(t).json.obj.session_id
\* the handle record after a write of id that succeeded
RecordOf(id) == Json(Obj([last_session_id |-> id]))
\* the write of the handle record by worker t's call succeeded
Written(t) == frame[t].written = [outcome |-> "ok"]

(* C6: every run that returns ok = true returns a non-empty text. *)
C6_SuccessHasText ==
    \A t \in Workers :
        (pc[t] = "done" /\ frame[t].ret.ok) => frame[t].ret.text # Str("")

(* C7: on exit status 0, a stdout that is no single JSON object (unparseable,
   or parsed to something without fields) makes run return ok = true, an empty
   error and the whole stdout as text. *)
C7_UnstructuredIsPlainText ==
    \A t \in Workers :
        ( /\ pc[t] = "done"
          /\ Exited0(t)
          /\ ~IsObject(json_loads(Printed(t))) ) =>
            frame[t].ret = Success(Printed(t))

(* C8: a JSON object whose is_error flag is set makes run return ok = false,
   an empty text and the error_message it carries (the fixed "Unknown error"
   text when it carries none), whatever result, message or session_id it also
   carries. *)
C8_ErrorFlagWins ==
    \A t \in Workers :
        (pc[t] = "done" /\ Flagged(t)) =>
            LET o == Printed(t).json
            IN  /\ ~frame[t].ret.ok
                /\ frame[t].ret.text = Str("")
                /\ frame[t].ret.error =
                       (IF o.obj.error_message # Missing THEN o.obj.error_message
                        ELSE UNKNOWN_ERROR)

C8_Witness ==
    \E t \in Workers :
        /\ pc[t] = "done"
        /\ Flagged(t)
        /\ Printed(t).json.obj.result = Str("answer")
        /\ Printed(t).json.obj.session_id # Missing
        /\ Printed(t).json.obj.message # Missing
        /\ frame[t].ret = Failure(Str("boom"))

(* C9, as stated: when a zero-exit JSON object without the error flag carries
   a session_id, the handle in memory and the handle record both hold that id
   by the time run extracts the answer text, and still when it returns. *)
C9_HandleBeforeText ==
    \A t \in Workers :
        ReceivedId(t) =>
            /\ last_session_id = PrintedId(t)
            /\ session_file = RecordOf(PrintedId(t))

(* C9, amended: under the same condition the handle in memory holds that id by
   the time run extracts the answer text and when it returns, and the write of
   the handle record has been attempted by then, the record holding the id
   when that write succeeded (a write that failed is printed and dropped);
   also when the object has no result, an empty result or only a message. *)
C9_HandleBeforeTextIfWritten ==
    \A t \in Workers :
        ReceivedId(t) =>
            /\ last_session_id = PrintedId(t)
            /\ frame[t].written # Unset
            /\ Written(t) => session_file = RecordOf(PrintedId(t))

C9_Witness ==
    \E t \in Workers :
        /\ ReceivedId(t)
        /\ pc[t] = "done"
        /\ Written(t)
        /\ PrintedId(t) = Str("s2")
        /\ Printed(t).json.obj.result = Missing
        /\ Printed(t).json.obj.message = Str("")
        /\ last_session_id = Str("s2")
        /\ session_file = RecordOf(Str("s2"))

(* C10, as stated: a ClaudeRunner constructed after a run that received a
   session_id has returned reports that id as its last handle; constructed
   with no handle record, it reports no handle. *)
C10_RestartKeepsHandle ==
    /\ (session_file = Absent => last_session_id = JNull)
    /\ [][ instance' # instance =>
             /\ \A t \in Workers :
                   (ReceivedId(t) /\ pc[t] = "done") => last_session_id' = PrintedId(t)
             /\ session_file = Absent => last_session_id' = JNull ]_vars

(* C10, amended: a ClaudeRunner constructed after a run that received a
   session_id and whose write of the handle record succeeded has returned
   reports that id as its last handle; constructed with no handle record, it
   reports no handle. *)
C10_RestartKeepsWrittenHandle ==
    /\ (session_file = Absent => last_session_id = JNull)
    /\ [][ instance' # instance =>
             /\ \A t \in Workers :
                   (ReceivedId(t) /\ pc[t] = "done" /\ Written(t))
                       => last_session_id' = PrintedId(t)
             /\ session_file = Absent => last_session_id' = JNull ]_vars

C10_Witness ==
    /\ instance > 0
    /\ AllFree
    /\ last_session_id = Str("s1")
    /\ session_file = RecordOf(Str("s1"))

(* C11: run never raises: every call returns a tuple (ok, text, error); a
   call that found no working directory, no executable, a timeout, a nonzero
   exit, the error flag or an unexpected exception returns ok = false and an
   empty text, and every call that returns ok = true returns an empty error. *)
C11_NeverRaises ==
    \A t \in Workers :
        pc[t] = "done" =>
            /\ DOMAIN frame[t].ret = {"ok", "text", "error"}
            /\ frame[t].ret.ok \in BOOLEAN
            /\ frame[t].ret.ok => frame[t].ret.error = Str("")
            /\ ~frame[t].ret.ok => frame[t].ret.text = Str("")
            /\ (frame[t].result = Unset \/ ~Exited0(t) \/ Flagged(t)) => ~frame[t].ret.ok

C11_Witness ==
    \E t \in Workers :
        /\ pc[t] = "done"
        /\ Exited0(t)
        /\ IsObject(json_loads(Printed(t)))
        /\ Printed(t).json.obj.result = JNum(5)
        /\ frame[t].ret = Failure(Unexpected("AttributeError: strip"))

\* worker t runs a thread of execute_claude_prompt_async that was given a callback
HasCallback(t) ==
    /\ pc[t] \in {"started", "spawn", "decode", "store", "save", "write", "extract",
                  "done", "except", "ended"}
    /\ frame[t].thread # NoThread
    /\ frame[t].thread.callback

(* C12: a thread of execute_claude_prompt_async that was given a callback
   never calls it more than once, and has called it exactly once when it ends,
   whatever the run returned and whether the callback returned or raised. *)
C12_CallbackOnce ==
    \A t \in Workers :
        HasCallback(t) =>
            /\ frame[t].thread.callbacks <= 1
            /\ pc[t] = "ended" => frame[t].thread.callbacks = 1

(* C13: a call of run calls subprocess.run at most once: not at all when the
   working directory does not exist, exactly once otherwise, and a call whose
   process failed (timeout, nonzero exit, not found, error flag) has returned
   without another spawn. *)
C13_OneSpawn ==
    \A t \in Workers :
        /\ frame[t].spawned <= 1
        /\ pc[t] = "done" =>
              frame[t].spawned = (IF frame[t].ret = Failure(NO_WORKDIR) THEN 0 ELSE 1)
        /\ (frame[t].raised # Unset \/ frame[t].result # Unset) =>
              pc[t] \notin {"idle", "spawn"}

C13_Witness ==
    \E t \in Workers :
        /\ pc[t] = "done"
        /\ frame[t].raised = [kind |-> "timeout"]
        /\ frame[t].spawned = 1

(* C14: when subprocess.run raises TimeoutExpired, run returns ok = false, an
   empty text and the message that names the timeout the call was given, and
   neither the step that entered the call nor the one that timed out changes
   the handle in memory or the handle record. *)
C14_TimeoutFails ==
    /\ [](\A t \in Workers :
            (pc[t] = "done" /\ frame[t].raised = [kind |-> "timeout"]) =>
                frame[t].ret =
                    Ret(FALSE, Str(""),
                        [ str |-> "Claude execution timed out after N seconds",
                          N |-> frame[t].timeout ]))
    /\ [][ \A t \in Workers :
             (pc'[t] = "spawn" \/ frame'[t].raised = [kind |-> "timeout"]) =>
                 /\ last_session_id' = last_session_id
                 /\ session_file' = session_file ]_vars

C14_Witness ==
    \E t \in Workers :
        /\ pc[t] = "done"
        /\ frame[t].raised = [kind |-> "timeout"]
        /\ frame[t].timeout = 10
        /\ frame[t].ret.error.N = 10
        /\ last_session_id = Str("s1")
        /\ session_file = RecordOf(Str("s1"))

\* no session id was named twice
NoRepeat(log) == \A i, j \in 1..Len(log) : log[i] = log[j] => i = j
\* the add_chat_entry that has just returned named the session it appended
\* to: the entry is its first, and it is marked auto_named
NamedOnFirstEntry ==
    (last_call.op = "add" /\ last_call.named # None) =>
        /\ current_session.kind # "none"
        /\ CurrentObj(Self).session_id = last_call.named
        /\ Len(CurrentObj(Self).entries) = 1
        /\ CurrentObj(Self).auto_named
        /\ CurrentObj(Self).session_name =
               _generate_session_name(CurrentObj(Self).entries[1].prompt_text)

(* C15, as stated: across add_chat_entry, splits, switches, saves and loads
   _schedule_auto_naming names a session at most once, on the append of its
   first entry, and marks it auto_named. *)
C15_NamedOnce ==
    /\ NoRepeat(named_log)
    /\ NamedOnFirstEntry

(* C15, amended: the same, as long as no write of the per-project record has
   failed: after a failed write a load brings back the session as last
   written, unnamed and empty, and its next first entry names it again. *)
C15_NamedOnceIfWritten ==
    /\ ~write_failed => NoRepeat(named_log)
    /\ NamedOnFirstEntry

C15_Witness ==
    /\ ~write_failed
    /\ last_call.op = "add"
    /\ last_call.named = None
    /\ last_call.split
    /\ Len(named_log) = 1
    /\ CurrentObj(Self).session_id = named_log[1]
    /\ CurrentObj(Self).auto_named

\* the active session, as the manager refers to it
Active == CurrentObj(Self)

(* C16: add_chat_entry leaves an active session whose last entry is the new
   entry, unsaved: the session that was active, with its earlier entries
   before the new one (the last SPLIT_KEEP of them all after a split) and an
   updated_at not earlier than before, or, when none was active, a session it
   created and made active, holding the new entry only. *)
C16_AppendsLast ==
    [][ (last_call'.op = "add" /\ clock' # clock) =>
          /\ current_session'.kind # "none"
          /\ active_session_id' = Active'.session_id
          /\ ~Active'.is_saved
          /\ Active'.entries # <<>>
          /\ Active'.entries[Len(Active'.entries)] = last_call'.entry
          /\ IF current_session.kind = "none"
             THEN /\ Active'.session_id = uuid4(next_uuid + 1)
                  /\ Active'.entries = <<last_call'.entry>>
             ELSE /\ Active'.session_id = Active.session_id
                  /\ Active'.updated_at >= Active.updated_at
                  /\ Active'.entries =
                        (IF last_call'.split
                         THEN TakeLast(Append(Active.entries, last_call'.entry), SPLIT_KEEP)
                         ELSE Append(Active.entries, last_call'.entry)) ]_vars

C16_Witness ==
    /\ last_call.op = "add"
    /\ current_session.kind = "detached"
    /\ Active.entries = <<last_call.entry>>
    /\ active_session_id = Active.session_id
    /\ ~Active.is_saved

\* the record of the current project, and the list get_project_sessions() returns
CurRecord == sessions_file[_get_project_id(current_project_path)]
PublicList == get_project_sessions(Self, None)
ListDicts(L) == [i \in 1..Len(L) |-> session_to_dict(L[i])]
Holds(L, entry) ==
    \E i \in 1..Len(L) : \E k \in 1..Len(L[i].entries) : L[i].entries[k] = entry

(* C17: after an add_chat_entry call in which no write failed, the record of
   the current project is a written one whose sessions are the in-memory
   sessions of the current project, in order, the new entry among them. *)
C17_RecordIsList ==
    (last_call.op = "add" /\ ~last_call.lost) =>
        /\ CurRecord.state = "json"
        /\ CurRecord.data.sessions = ListDicts(PublicList)
        /\ Holds(PublicList, last_call.entry)

\* the lists of the projects other than the current one
OtherLists ==
    [q \in DOMAIN project_sessions \ {_get_project_id(current_project_path)} |->
        project_sessions[q]]

(* C18: start_new_session puts one session without entries at the end of the
   list of the current project and makes it active; the sessions that were in
   the list stay as they were, at their positions, and so do the lists of the
   other projects. *)
C18_StartAppends ==
    [][ last_call'.op = "start" =>
          /\ PublicList' # <<>>
          /\ PublicList' = Append(PublicList, PublicList'[Len(PublicList')])
          /\ PublicList'[Len(PublicList')].entries = <<>>
          /\ current_session' = Listed(Len(PublicList'))
          /\ active_session_id' = PublicList'[Len(PublicList')].session_id
          /\ OtherLists' = OtherLists ]_vars

\* the ids of the sessions in the lists of the projects other than the current one
IdsElsewhere ==
    UNION { {OtherLists[q][i].session_id : i \in 1..Len(OtherLists[q])} :
            q \in DOMAIN OtherLists }
IdsHere == {CurList[i].session_id : i \in 1..Len(CurList)}

(* C19: switch_to_session(id) with a session of that id in the list of the
   current project makes a session of that list with that id the active one;
   with none it reports not-found and leaves the active session, its id, and
   every list and session as they were, whatever the other projects hold. *)
C19_SwitchFrame ==
    [][ last_call'.op = "switch" =>
          /\ project_sessions' = project_sessions
          /\ current_project_path' = current_project_path
          /\ IF last_call'.session_id \in IdsHere
             THEN /\ last_call'.found
                  /\ current_session'.kind = "listed"
                  /\ Active' = CurList[current_session'.idx]
                  /\ Active'.session_id = last_call'.session_id
                  /\ active_session_id' = last_call'.session_id
             ELSE /\ ~last_call'.found
                  /\ current_session' = current_session
                  /\ active_session_id' = active_session_id ]_vars

C19_Witness ==
    /\ last_call.op = "switch"
    /\ ~last_call.found
    /\ last_call.session_id \in IdsElsewhere \ IdsHere
    /\ active_session_id # last_call.session_id

(* C20: after load_project_sessions(p) the active session is the last one of
   the list of p, which is not empty; a session the call created without a
   migration has no entries and is the only one of the list. *)
C20_OneActiveAfterLoad ==
    [][ last_call'.op = "load" =>
          LET L == LoadedList'
          IN  /\ current_project_path' = last_call'.path
              /\ L # <<>>
              /\ current_session' = Listed(Len(L))
              /\ active_session_id' = L[Len(L)].session_id
              /\ (next_uuid' # next_uuid /\ ~last_call'.migrated) =>
                    /\ Len(L) = 1
                    /\ L[1].entries = <<>>
                    /\ L[1].session_id = uuid4(next_uuid + 1) ]_vars

\* every session the store holds in memory
AllSessions ==
    UNION { {project_sessions[q][i] : i \in 1..Len(project_sessions[q])} :
            q \in DOMAIN project_sessions }
    \cup (IF current_session.kind = "detached" THEN {current_session.obj} ELSE {})
\* the session read back from what to_dict gives, by a from_dict whose own
\* uuid4 and datetime.now() would give other values than the session holds
ReadBack(s) == session_from_dict(session_to_dict(s), uuid4(0), clock + 1)

(* C21: every session of the store, read back by from_dict from what to_dict
   gives, equals the session in every field, its entries in order and equal
   in every field; so do the sessions read from the written record. *)
C21_RoundTrip ==
    /\ \A s \in AllSessions : ReadBack(s) = s
    /\ (last_call.op = "add" /\ Truthy(current_project_path)) =>
          StoredSessions(Self, _get_project_id(current_project_path), clock + 1) = CurList

C21_Witness ==
    /\ last_call.op = "add"
    /\ \E s \in AllSessions :
          /\ s.auto_named
          /\ Len(s.entries) = 2
          /\ s.entries[1].token_usage # {}
          /\ "déjà" \in {s.entries[1].prompt_text[k] : k \in 1..Len(s.entries[1].prompt_text)}
          /\ ReadBack(s) = s

\* the names the auto-naming gave: of the sessions named from their first entry
NamedFrom(s) == s.auto_named /\ Len(s.entries) = 1

(* C22: the name _generate_session_name returns for a prompt text has from 1
   to NAME_LIMIT characters, is the same for the same text, and is
   "New Session" or "Chat Session" for the empty text. *)
C22_NameBounded ==
    /\ last_call.op = "add" =>
          LET x == last_call.entry.prompt_text
              name == _generate_session_name(x)
          IN  /\ NameLen(name) >= 1
              /\ NameLen(name) <= NAME_LIMIT
              /\ x = <<>> => name \in {<<"New", "Session">>, <<"Chat", "Session">>}
    /\ \A s \in AllSessions :
          NamedFrom(s) =>
              /\ s.session_name = _generate_session_name(s.entries[1].prompt_text)
              /\ NameLen(s.session_name) \in 1..NAME_LIMIT
    /\ \A s, t \in AllSessions :
          (NamedFrom(s) /\ NamedFrom(t) /\ s.entries[1].prompt_text = t.entries[1].prompt_text)
              => s.session_name = t.session_name

C22_Witness ==
    /\ last_call.op = "add"
    /\ \E s \in AllSessions :
          /\ NamedFrom(s)
          /\ s.entries[1].prompt_text = <<LongWord>>
          /\ NameLen(s.session_name) = NAME_LIMIT

\* the entries the written record of the current project holds
RecordEntries ==
    IF CurRecord.state = "json"
    THEN UNION { {CurRecord.data.sessions[i].entries[k] :
                     k \in 1..Len(CurRecord.data.sessions[i].entries)} :
                 i \in 1..Len(CurRecord.data.sessions) }
    ELSE {}

(* C23: after the history of the current project is cleared, its sessions
   hold no entries, in memory and in the written record, and the call has
   not raised. *)
C23_ClearDrops ==
    last_call.op = "clear" =>
        /\ \A i \in 1..Len(CurList) : CurList[i].entries = <<>>
        /\ RecordEntries = {}
        /\ last_call.raised = None

\* the positions of flag in the command line args
At(args, flag) == {i \in 1..Len(args) : args[i] = flag}
\* flag is in args, followed by value
Gives(args, flag, value) == \E i \in At(args, flag) : i < Len(args) /\ args[i + 1] = value
\* the workers whose call has built its command line
Built == {t \in Workers : frame[t].args # Unset}

(* C24: every command line execute_claude_prompt builds has exactly one
   continuation request: --resume with the handle when a handle is given
   (one that is not None and not empty), --continue otherwise. *)
C24_OneContinuation ==
    \A t \in Built :
        LET args == frame[t].args
            handle == frame[t].given.resume_session_id
        IN  /\ Cardinality(At(args, "--resume")) + Cardinality(At(args, "--continue")) = 1
            /\ handle \notin {JNull, Str("")} => Gives(args, "--resume", handle.str)
            /\ handle \in {JNull, Str("")} => At(args, "--continue") # {}

C24_Witness ==
    \E t \in Built :
        /\ pc[t] = "spawn"
        /\ frame[t].given.resume_session_id = Str("s2")
        /\ last_session_id = Str("s2")
        /\ Gives(frame[t].args, "--resume", "s2")

(* C25: a command line built with enable_editing false selects the
   permission mode plan and not acceptEdits; one built with enable_editing
   true selects acceptEdits and has one --allowedTools flag for each entry of
   allowed_tools, in order; both ask for the output format json. *)
C25_ModeFlags ==
    \A t \in Built :
        LET args == frame[t].args
            given == frame[t].given
        IN  /\ Gives(args, "--output-format", "json")
            /\ Cardinality(At(args, "--permission-mode")) = 1
            /\ ~given.enable_editing =>
                  /\ Gives(args, "--permission-mode", "plan")
                  /\ At(args, "acceptEdits") = {}
            /\ given.enable_editing =>
                  /\ Gives(args, "--permission-mode", "acceptEdits")
                  /\ At(args, "-p") = {}
                  /\ Cardinality(At(args, "--allowedTools")) = Len(given.allowed_tools)
                  /\ \A k \in 1..Len(given.allowed_tools) :
                        \E i \in At(args, "--allowedTools") :
                            /\ Cardinality({j \in At(args, "--allowedTools") : j <= i}) = k
                            /\ args[i + 1] = given.allowed_tools[k]

C25_Witness ==
    \E t \in Built :
        /\ pc[t] = "spawn"
        /\ frame[t].given.enable_editing
        /\ Len(frame[t].given.allowed_tools) = 2
        /\ Cardinality(At(frame[t].args, "--allowedTools")) = 2

RECURSIVE EntriesOf(_)
\* the entries of the sessions of L, one session after the other
EntriesOf(L) == IF L = <<>> THEN <<>> ELSE Head(L).entries \o EntriesOf(Tail(L))

(* C26: in a loaded project whose sessions start empty, after any number of
   add_chat_entry calls on the active session the entries of the sessions of
   the project, taken in list order, are the appended entries in append
   order, each once. *)
C26_NothingLost ==
    Truthy(current_project_path) => EntriesOf(CurList) = AppendedRange(1, clock)

C26_Witness ==
    /\ Truthy(current_project_path)
    /\ clock = SPLIT_THRESHOLD + 1 + SPLIT_KEEP + 1
    /\ last_call.op = "add" /\ last_call.split
    /\ Cardinality({i \in 1..Len(CurList) : CurList[i].entries # <<>>}) = 3
    /\ EntriesOf(CurList) = AppendedRange(1, clock)

(* C27: after any calls of load_project_sessions, start_new_session,
   switch_to_session and add_chat_entry, whatever the project path, the active
   session is one of the sessions get_project_sessions() returns, and the
   entry an add_chat_entry call accepted is in one of them. *)
C27_ActiveIsListed ==
    /\ current_session.kind # "none" =>
          \E i \in 1..Len(PublicList) : PublicList[i] = Active
    /\ last_call.op = "add" => Holds(PublicList, last_call.entry)

(* C28: when two calls of execute_claude_prompt that ran at the same time on
   one executor have both returned, each having received a session_id and
   written the handle record without failure, the record holds the handle the
   executor has in memory, which is one of the two ids received. *)
C28_HandleAgrees ==
    (\A t \in Workers : pc[t] = "done" /\ ReceivedId(t) /\ Written(t)) =>
        /\ session_file = RecordOf(last_session_id)
        /\ \E t \in Workers : last_session_id = PrintedId(t)

\* worker t's call has returned a failure and the process was not restarted since
Failed(t) ==
    /\ pc[t] = "done"
    /\ ~frame[t].ret.ok
    /\ frame[t].found # Unset
    /\ frame[t].found.instance = instance

(* C29: a call of execute_claude_prompt that returns a failure leaves the
   handle as it found it, in memory and in the handle record, whatever the
   response carries. *)
C29_FailureKeepsHandle ==
    \A t \in Workers :
        Failed(t) =>
            /\ last_session_id = frame[t].found.last_session_id
            /\ session_file = frame[t].found.session_file

(* C30: when a call of execute_claude_prompt has returned, the prompt file it
   created no longer exists, whatever the outcome of the call. *)
C30_TempFileRemoved ==
    \A t \in Workers : pc[t] = "done" => ~frame[t].temp_file

=============================================================================
